---- MODULE Spec2Model ----
(***************************************************************************)
(* Workspace version-control core of app/src/main/python/sandbox_tool.py:  *)
(* the git_* handlers (init, add, rm, mv, commit, status, log, diff,       *)
(* branch, checkout, checkpoint, restore, list_checkpoints) over a dulwich *)
(* repository, _validate_path, and the file writes of the surrounding tool *)
(* layer.                                                                  *)
(*                                                                         *)
(* Library semantics used by the handlers (dulwich):                       *)
(*  - object ids (commit.id, repo.head(), refs[...]) are ASCII hex byte    *)
(*    strings; bytes.hex() of such an id is the hex of its ASCII codes;    *)
(*  - repo.refs[b'HEAD'] = sha follows a symbolic HEAD and writes the      *)
(*    branch it names; it writes HEAD itself only when HEAD is detached;   *)
(*  - Tree.items() yields TreeEntry(path, mode, sha) triples and           *)
(*    `name in tree` tests the names of the top level only;               *)
(*  - porcelain.add(repo, paths=['.']) stages every untracked, modified    *)
(*    and deleted path of the working tree outside the control directory;  *)
(*  - build_index_from_tree replaces the index by the tree's entries and   *)
(*    writes every blob of the tree to disk.                               *)
(*                                                                         *)
(* A hash is modelled as an injective numbering of the objects of the      *)
(* bounded universe: a blob id is its content, a tree id its entries.      *)
(***************************************************************************)
EXTENDS Integers, Sequences, FiniteSets, TLC

VARIABLES inited, work, wt, index, commits, branches, head, last, scen,
          conc, snap, fault, vpath

vars == <<inited, work, wt, index, commits, branches, head, last, scen, conc, snap,
          fault, vpath>>

(***************************************************************************)
(* Bounds                                                                  *)
(***************************************************************************)
MaxContent == 2
MaxNestedContent == 1
MaxCommits == 2
MaxDiffCommits == 1
ShaLen == 4

(***************************************************************************)
(* Program constants                                                       *)
(***************************************************************************)
ShortLen == 7
DefaultMaxCount == 20
BoundIdx == 7

(***************************************************************************)
(* Paths, contents, names                                                  *)
(***************************************************************************)
PX == <<"x.txt">>
PD == <<"d", "y.txt">>
PG == <<".github", "w.yml">>
PC == <<".git", "config">>
Paths == {PX, PD, PG, PC}

\* Names in which the text ".git" occurs (the test `'.git' in root`).
DotGitNames == {".git", ".github"}

\* A path with an element named ".git": a file of the control directory
\* (dulwich's validate_path_element_default rejects exactly these).
InControlDir(p) == \E k \in 1..Len(p) : p[k] = ".git"

NoFile == 0

BranchNames == {"master", "feature"}
DefaultBranch == "master"

\* The calls of one run: files is the number of contents the run writes to
\* each path, ops the operations it calls, names the branch names it uses,
\* commits the number of commits it makes at most.
FilesOf(nx, nd, ng) ==
    [p \in Paths |-> IF p = PX THEN nx ELSE IF p = PD THEN nd
                     ELSE IF p = PG THEN ng ELSE 0]

BaseOps == {"init", "write", "delete", "checkpoint", "restore"}

\* One top-level file with several contents under every staging and history
\* call.
TraceLoad ==
    [files |-> FilesOf(MaxContent, 0, 0),
     ops |-> BaseOps \cup {"add", "commit", "status", "log"},
     names |-> {DefaultBranch}, commits |-> MaxCommits]

\* A top-level file and a nested one.
NestedLoad ==
    [files |-> FilesOf(1, MaxNestedContent, 0), ops |-> BaseOps, names |-> {DefaultBranch}, commits |-> MaxCommits]

\* A file in .github, two branches.
BranchLoad ==
    [files |-> FilesOf(0, 0, MaxNestedContent),
     ops |-> BaseOps \cup {"checkout", "branch"},
     names |-> BranchNames, commits |-> MaxCommits]

Workloads == {TraceLoad, NestedLoad, BranchLoad}

Calls(op) == op \in work.ops

EmptyTree == [p \in Paths |-> NoFile]

TreeFiles(t) == {p \in Paths : t[p] # NoFile}

\* The entry names of the top level of a tree (files and directories).
TopNames(t) == {p[1] : p \in TreeFiles(t)}

\* index.commit(object_store): the tree holding exactly the index entries.
BuildTree(idx) == [p \in Paths |-> idx[p]]

\* A blob id is the hash of "blob <len>\0<content>": one id per content.
BlobId(c) == c

\* The repository and working tree as one value.
Cur == [wt |-> wt, index |-> index, commits |-> commits,
        branches |-> branches, head |-> head]

Apply(s) ==
    /\ wt' = s.wt
    /\ index' = s.index
    /\ commits' = s.commits
    /\ branches' = s.branches
    /\ head' = s.head

(***************************************************************************)
(* Refs                                                                    *)
(***************************************************************************)
\* repo.head(): the commit HEAD resolves to, 0 when it resolves to nothing.
HeadShaOf(s) == IF s.head.branch # "" THEN s.branches[s.head.branch] ELSE s.head.sha

HeadSha == HeadShaOf(Cur)

HeadTreeOf(s) == IF HeadShaOf(s) = 0 THEN EmptyTree ELSE s.commits[HeadShaOf(s)].tree

HeadTree == HeadTreeOf(Cur)

\* HEAD set to point directly at c, whatever it was.
SetHeadDetached(s, c) == [s EXCEPT !.head = [branch |-> "", sha |-> c]]

\* repo.refs[b'HEAD'] = c: a symbolic HEAD is followed and the branch it
\* names is written; a detached HEAD is written itself.
SetHead(s, c) ==
    IF s.head.branch # ""
    THEN [s EXCEPT !.branches = [@ EXCEPT ![s.head.branch] = c]]
    ELSE [s EXCEPT !.head = [branch |-> "", sha |-> c]]

(***************************************************************************)
(* status(repo)                                                            *)
(***************************************************************************)
StagedAdd(s) == {p \in Paths : s.index[p] # NoFile /\ HeadTreeOf(s)[p] = NoFile}
StagedDelete(s) == {p \in Paths : s.index[p] = NoFile /\ HeadTreeOf(s)[p] # NoFile}
\* A tree comparison that reports no modification.
NoModify(s) == {p \in Paths : FALSE}

StagedModify(s) ==
    {p \in Paths : /\ s.index[p] # NoFile
                   /\ HeadTreeOf(s)[p] # NoFile
                   /\ s.index[p] # HeadTreeOf(s)[p]}
\* A status that always reports staged changes.
AlwaysStaged(s) == TRUE

HasStaged(s) == StagedAdd(s) \cup StagedDelete(s) \cup StagedModify(s) # {}

Unstaged(s) == {p \in Paths : s.index[p] # NoFile /\ BlobId(s.wt[p]) # s.index[p]}
Untracked(s) == {p \in Paths : s.index[p] = NoFile /\ s.wt[p] # NoFile}

(***************************************************************************)
(* Results                                                                 *)
(***************************************************************************)
\* The last call and what it returned: success, the commit whose id it
\* returned (0 for none), and has_changes (of a restore: whether HEAD resolved
\* to another commit before it).
Result(op, ok, sha, chg) == [op |-> op, ok |-> ok, sha |-> sha, chg |-> chg]

\* The scenario of the end-to-end trace: step k is reached by performing the
\* k-th call of the trace right after the (k-1)-th; any other call leaves it.
ScenOff == [step |-> -1, cp1 |-> 0]
ScenAdvance(k, isStep) ==
    IF scen.step = k - 1 /\ isStep THEN [scen EXCEPT !.step = k] ELSE ScenOff

Idle == conc.pcA = "idle" /\ conc.pcB = "idle"
NoConc == [pcA |-> "idle", pcB |-> "idle", c |-> 0]

\* The paths whose file the file system refuses to write or remove during
\* the last sync: none unless a run injects such failures.
NoFault == {p \in Paths : FALSE}

\* The value of vpath while no call of _validate_path is looked at.
NoValidate == [user_path |-> <<>>, abs |-> FALSE, out |-> "none", full_path |-> <<>>]

\* The value of snap while no two calls run at once.
NoSnap ==
    [wt |-> EmptyTree, index |-> EmptyTree, commits |-> <<>>,
     branches |-> [b \in BranchNames |-> 0],
     head |-> [branch |-> DefaultBranch, sha |-> 0]]

InitRepo(w) ==
    /\ inited = FALSE
    /\ work = w
    /\ wt = EmptyTree
    /\ index = EmptyTree
    /\ commits = <<>>
    /\ branches = [b \in BranchNames |-> 0]
    /\ head = [branch |-> DefaultBranch, sha |-> 0]
    /\ last = Result("none", TRUE, 0, FALSE)
    /\ scen = [step |-> 0, cp1 |-> 0]
    /\ conc = NoConc
    /\ snap = NoSnap
    /\ fault = NoFault

InitWith(w) == InitRepo(w) /\ vpath = NoValidate

Init == \E w \in Workloads : InitWith(w)

\* _git_init
GitInit ==
    /\ Idle /\ Calls("init") /\ ~inited
    /\ inited' = TRUE
    /\ last' = Result("init", TRUE, 0, FALSE)
    /\ scen' = ScenAdvance(1, TRUE)
    /\ UNCHANGED <<work, wt, index, commits, branches, head, conc, snap, fault, vpath>>

\* _write_file: the tool layer writes content c to path p.
WriteFile(p, c) ==
    /\ Idle /\ Calls("write") /\ c \in 1..work.files[p]
    /\ wt' = [wt EXCEPT ![p] = c]
    /\ last' = Result("write", TRUE, 0, FALSE)
    /\ scen' = IF scen.step = 1 THEN ScenAdvance(2, p = PX /\ c = 1)
               ELSE ScenAdvance(8, p = PX /\ c = 2)
    /\ UNCHANGED <<inited, work, index, commits, branches, head, conc, snap, fault, vpath>>

\* _delete_file: the tool layer deletes an existing file.
DeleteFile(p) ==
    /\ Idle /\ Calls("delete") /\ wt[p] # NoFile
    /\ wt' = [wt EXCEPT ![p] = NoFile]
    /\ last' = Result("delete", TRUE, 0, FALSE)
    /\ scen' = ScenOff
    /\ UNCHANGED <<inited, work, index, commits, branches, head, conc, snap, fault, vpath>>

\* os.walk(...) with `if '.git' in root: continue`: the files of a directory
\* whose path contains ".git" are skipped.
WalkSkipped(p) == \E k \in 1..(Len(p) - 1) : p[k] \in DotGitNames

\* Repo.stage(paths): a regular file is hashed and entered, a missing path
\* loses its entry.
Stage(idx, w, ps) == [p \in Paths |-> IF p \in ps THEN BlobId(w[p]) ELSE idx[p]]

\* The files _git_add collects for file_path == '.'.
AddDotFiles(w) == {p \in Paths : w[p] # NoFile /\ ~WalkSkipped(p)}

\* _git_add with file_path = '.'
GitAddAll ==
    /\ Idle /\ Calls("add") /\ inited
    /\ index' = Stage(index, wt, AddDotFiles(wt))
    /\ last' = Result("add", TRUE, 0, FALSE)
    /\ scen' = ScenOff
    /\ UNCHANGED <<inited, work, wt, commits, branches, head, conc, snap, fault, vpath>>

\* _git_add with file_path = a plain file path
GitAddFile(p) ==
    /\ Idle /\ Calls("add") /\ inited
    /\ IF wt[p] # NoFile
       THEN /\ index' = Stage(index, wt, {p})
            /\ last' = Result("add", TRUE, 0, FALSE)
       ELSE /\ index' = index
            /\ last' = Result("add", FALSE, 0, FALSE)
    /\ scen' = ScenAdvance(3, p = PX)
    /\ UNCHANGED <<inited, work, wt, commits, branches, head, conc, snap, fault, vpath>>

\* A commit of the index tree without a parent.
DoCommitRoot(s, msg) ==
    SetHead([s EXCEPT !.commits =
                 Append(@, [tree |-> BuildTree(s.index), parent |-> 0, msg |-> msg])],
            Len(s.commits) + 1)

\* A commit that empties the index.
DoCommitClearIndex(s, msg) ==
    SetHead([s EXCEPT !.commits =
                 Append(@, [tree |-> BuildTree(s.index),
                            parent |-> HeadShaOf(s),
                            msg |-> msg]),
                      !.index = EmptyTree],
            Len(s.commits) + 1)

\* porcelain.commit: a commit of the index tree on top of HEAD's commit;
\* the ref HEAD leads to is moved to it.
DoCommit(s, msg) ==
    SetHead([s EXCEPT !.commits =
                 Append(@, [tree |-> BuildTree(s.index),
                            parent |-> HeadShaOf(s),
                            msg |-> msg])],
            Len(s.commits) + 1)

CommitMsgs == {<<"first">>}

\* _git_commit
GitCommit(msg) ==
    /\ Idle /\ Calls("commit") /\ inited
    /\ IF ~HasStaged(Cur)
       THEN /\ last' = Result("commit", FALSE, 0, FALSE)
            /\ UNCHANGED <<wt, index, commits, branches, head>>
       ELSE /\ Len(commits) < work.commits
            /\ Apply(DoCommit(Cur, msg))
            /\ last' = Result("commit", TRUE, Len(commits) + 1, TRUE)
    /\ scen' = ScenAdvance(5, msg = <<"first">>)
    /\ UNCHANGED <<inited, work, conc, snap, fault, vpath>>

\* A status that writes the index back with every entry refreshed to the
\* content of its file on disk.
StatusRefreshed(s) ==
    [s EXCEPT !.index = [p \in Paths |-> IF s.index[p] # NoFile THEN s.wt[p] ELSE NoFile]]

\* status(repo): the index, HEAD's tree and the files are read and compared;
\* nothing is written back.
StatusRead(s) == s

\* _git_status
GitStatus ==
    /\ Idle /\ Calls("status") /\ inited
    /\ Apply(StatusRead(Cur))
    /\ last' = Result("status", TRUE, 0, FALSE)
    /\ scen' = ScenAdvance(4, TRUE)
    /\ UNCHANGED <<inited, work, conc, snap, fault, vpath>>

RECURSIVE ChainOf(_, _)
\* Walker(repo, sha): the commits from sha along the parent chain, newest first.
ChainOf(cs, c) == IF c = 0 THEN <<>> ELSE <<c>> \o ChainOf(cs, cs[c].parent)

IsSpace(tok) == tok \in {" ", "\n"}

RECURSIVE Strip(_)
\* str.strip(): leading and trailing whitespace removed.
Strip(m) ==
    IF m = <<>> THEN m
    ELSE IF IsSpace(Head(m)) THEN Strip(Tail(m))
    ELSE IF IsSpace(m[Len(m)]) THEN Strip(SubSeq(m, 1, Len(m) - 1))
    ELSE m

\* The commits _git_log returns for max_count = n.
LogEntries(n) ==
    LET ch == ChainOf(commits, HeadSha)
    IN  SubSeq(ch, 1, IF Len(ch) < n THEN Len(ch) ELSE n)

LogMessage(c) == Strip(commits[c].msg)

\* _git_log
GitLog(n) ==
    /\ Idle /\ Calls("log") /\ inited
    /\ last' = Result("log", HeadSha # 0, 0, FALSE)
    /\ scen' = ScenAdvance(6, TRUE)
    /\ UNCHANGED <<inited, work, wt, index, commits, branches, head, conc, snap, fault, vpath>>

(***************************************************************************)
(* Object ids                                                              *)
(***************************************************************************)
\* Base of the numbering of trees: one digit per path.
TreeRadix == MaxContent + MaxNestedContent + 1

TreeNum(t) ==
    t[PX] + TreeRadix * t[PD] + TreeRadix * TreeRadix * t[PG]
        + TreeRadix * TreeRadix * TreeRadix * t[PC]

\* The tree object of the directory of a nested path p holding content c.
SubTreeObj(p, c) ==
    [kind |-> "tree",
     n |-> 1000 + (IF p = PD THEN 100 ELSE IF p = PG THEN 200 ELSE 300) + c]

CommitObj(c) == [kind |-> "commit", n |-> c]

\* The objects a commit of tree t brings into the store besides itself.
TreeObjects(t) ==
    {[kind |-> "tree", n |-> TreeNum(t)]}
        \cup {SubTreeObj(p, t[p]) : p \in {q \in TreeFiles(t) : Len(q) > 1}}
        \cup {[kind |-> "blob", n |-> t[p]] : p \in TreeFiles(t)}

\* repo.object_store: the objects reachable from the commits and the index.
Store(s) ==
    {CommitObj(c) : c \in 1..Len(s.commits)}
        \cup UNION {TreeObjects(s.commits[c].tree) : c \in 1..Len(s.commits)}
        \cup {[kind |-> "blob", n |-> s.index[p]] : p \in TreeFiles(s.index)}

KindCode(k) == CASE k = "blob" -> 1 [] k = "tree" -> 2 [] OTHER -> 3

\* The digest of an object as a number below 16^ShaLen, one per object.
ShaNum(o) == ((KindCode(o.kind) * 4096 + o.n) * 40503) % (16 ^ ShaLen)

\* obj.id: the ASCII hex characters of the digest (a character is 0..15).
ShaChars(o) == [k \in 1..ShaLen |-> (ShaNum(o) \div (16 ^ (ShaLen - k))) % 16]

\* The two hex digits of the ASCII code of a hex character ('0' is 0x30,
\* 'a' is 0x61).
HexOfChar(h) == IF h < 10 THEN <<3, h>> ELSE <<6, h - 9>>

RECURSIVE HexOfBytes(_)
\* bytes.hex()
HexOfBytes(cs) ==
    IF Len(cs) = 0 THEN <<>> ELSE HexOfChar(Head(cs)) \o HexOfBytes(Tail(cs))

\* commit_sha.hex()
FullHex(o) == HexOfBytes(ShaChars(o))

\* commit_sha.hex()[:7]
ShortHex(o) == SubSeq(FullHex(o), 1, ShortLen)

\* str.startswith
IsPrefix(s, t) == Len(s) <= Len(t) /\ SubSeq(t, 1, Len(s)) = s

\* bytes.fromhex(s) returns: s is an even number of hex digits.
FromHexOK(s) == Len(s) % 2 = 0 /\ \A k \in 1..Len(s) : s[k] \in 0..15

\* The objects the resolution of checkpoint_id id can end on: the object of
\* that id when the store holds it, else the first object, in the store's
\* iteration order, whose hex starts with id.
ResolveTargets(s, id) ==
    IF \E o \in Store(s) : FullHex(o) = id
    THEN {o \in Store(s) : FullHex(o) = id}
    ELSE {o \in Store(s) : IsPrefix(id, FullHex(o))}

\* The failure of the resolution of an id, "" when it resolves.
ResolveError(s, id) ==
    IF id = <<>> THEN "Missing checkpoint_id parameter"
    ELSE IF ~FromHexOK(id) THEN "Invalid checkpoint ID"
    ELSE IF ResolveTargets(s, id) = {} THEN "Checkpoint not found"
    ELSE ""

(***************************************************************************)
(* Checkpoint                                                              *)
(***************************************************************************)
NoIdx == -1
CheckpointPrefix == "[WORKFLOW-CHECKPOINT]"
CheckpointMsgs == {<<"cp1">>, <<"cp2">>}

\* str(i) for the bound indices of the model.
IntStr(i) == IF i = 7 THEN "7" ELSE IF i = 8 THEN "8" ELSE "0"

\* checkpoint_message
CheckpointMessage(m, i) ==
    <<CheckpointPrefix, " ">> \o m
        \o (IF i # NoIdx THEN <<" ", "|", " ", "message_index=", IntStr(i)>> ELSE <<>>)

\* The paths add(repo, paths=['.']) stages: the untracked files and the
\* index paths whose file changed or is gone.
AddAllPaths(idx, w) ==
    {p \in Paths : idx[p] = NoFile /\ w[p] # NoFile /\ ~InControlDir(p)}
        \cup {p \in Paths : idx[p] # NoFile /\ BlobId(w[p]) # idx[p]}

StageAll(idx, w) == Stage(idx, w, AddAllPaths(idx, w))

\* _git_checkpoint, first part: add(repo, paths=['.'])
CpStage(s) == [s EXCEPT !.index = StageAll(s.index, s.wt)]

\* A second part that commits whether or not status reports staged changes.
CpCommitAlways(s, m, i) == DoCommit(s, CheckpointMessage(m, i))

\* _git_checkpoint, second part: status(repo), and commit(...) if it reports
\* staged changes.
CpCommit(s, m, i) == IF HasStaged(s) THEN DoCommit(s, CheckpointMessage(m, i)) ELSE s

CheckpointF(s, m, i) == CpCommit(CpStage(s), m, i)

\* The result of _git_checkpoint called in s: the commit whose ids are
\* returned (checkpoint_id and full_sha), and has_changes.
CpResult(s) ==
    IF HasStaged(CpStage(s)) THEN Result("checkpoint", TRUE, Len(s.commits) + 1, TRUE)
    ELSE IF HeadShaOf(s) = 0 THEN Result("checkpoint", FALSE, 0, FALSE)
    ELSE Result("checkpoint", TRUE, HeadShaOf(s), FALSE)

\* _git_checkpoint
GitCheckpoint(m, i) ==
    /\ Idle /\ Calls("checkpoint") /\ inited
    /\ HasStaged(CpStage(Cur)) => Len(commits) < work.commits
    /\ Apply(CheckpointF(Cur, m, i))
    /\ last' = CpResult(Cur)
    /\ scen' = IF scen.step = 6 /\ m = <<"cp1">> /\ i = NoIdx
               THEN [step |-> 7, cp1 |-> CpResult(Cur).sha]
               ELSE ScenAdvance(9, m = <<"cp2">> /\ i = NoIdx)
    /\ UNCHANGED <<inited, work, conc, snap, fault, vpath>>

(***************************************************************************)
(* Restore                                                                 *)
(***************************************************************************)
\* First walk of _git_restore: a file is removed unless its relative path
\* is an entry name of the top level of the tree.
RestoreDeletePass(w, tree) ==
    [p \in Paths |->
        IF w[p] # NoFile /\ ~WalkSkipped(p) /\ ~(Len(p) = 1 /\ p[1] \in TopNames(tree))
        THEN NoFile ELSE w[p]]

\* write_tree_to_path: `for name, entry in tree_obj.items()` unpacks a
\* TreeEntry triple into two names, which raises for a tree with an entry.
WriteTreeRaises(tree) == TreeFiles(tree) # {}

\* collect_tracked: as write_tree_to_path, it completes for a tree without
\* entries only, and then tracks nothing.
TrackedFiles(tree) == {p \in Paths : FALSE}

\* Last walk of _git_restore (clean): untracked files are removed.
RestoreCleanPass(w, tree) ==
    [p \in Paths |->
        IF w[p] # NoFile /\ ~WalkSkipped(p) /\ p \notin TrackedFiles(tree)
        THEN NoFile ELSE w[p]]

\* _git_restore from the write of HEAD to the end of the first walk.
RsHeadDelete(s, c) ==
    [SetHead(s, c) EXCEPT !.wt = RestoreDeletePass(s.wt, s.commits[c].tree)]

\* _git_restore from write_tree_to_path on.
RsWriteClean(s, c, clean) ==
    IF WriteTreeRaises(s.commits[c].tree) \/ ~clean THEN s
    ELSE [s EXCEPT !.wt = RestoreCleanPass(s.wt, s.commits[c].tree)]

RestoreF(s, c, clean) == RsWriteClean(RsHeadDelete(s, c), c, clean)

\* Whether _git_restore of commit c returns success.
RestoreOk(s, c) == ~WriteTreeRaises(s.commits[c].tree)

\* The lengths of the ids given to restore.
PrefixLens == {2, ShortLen, 2 * ShaLen}

\* The ids given to restore: prefixes of the hex of stored objects, the
\* empty id, an id no object has, an id that is no hex.
RestoreInputs ==
    {SubSeq(FullHex(o), 1, n) : o \in Store(Cur), n \in PrefixLens}
        \cup {<<>>, <<0, 0>>, <<16, 1>>}

\* _git_restore
GitRestore(id, clean) ==
    /\ Idle /\ Calls("restore") /\ inited
    /\ IF ResolveError(Cur, id) # ""
       THEN /\ last' = Result("restore", FALSE, 0, FALSE)
            /\ UNCHANGED <<wt, index, commits, branches, head>>
       ELSE \E o \in ResolveTargets(Cur, id) :
            IF o.kind # "commit"
            THEN /\ last' = Result("restore", FALSE, 0, FALSE)
                 /\ UNCHANGED <<wt, index, commits, branches, head>>
            ELSE /\ Apply(RestoreF(Cur, o.n, clean))
                 /\ last' = Result("restore", RestoreOk(Cur, o.n),
                                   IF RestoreOk(Cur, o.n) THEN o.n ELSE 0,
                                   HeadSha # o.n)
    /\ scen' = ScenAdvance(10, clean /\ scen.cp1 # 0 /\ id = ShortHex(CommitObj(scen.cp1)))
    /\ UNCHANGED <<inited, work, conc, snap, fault, vpath>>

(***************************************************************************)
(* Branches and checkout                                                   *)
(***************************************************************************)
\* build_index_from_tree, _reset_working_tree and _remove_untracked_files:
\* every file of the tree is written, every other file the walk visits is
\* removed.
CheckoutTree(w, tree) ==
    [p \in Paths |->
        IF tree[p] # NoFile /\ ~InControlDir(p) THEN tree[p]
        ELSE IF ~WalkSkipped(p) THEN NoFile
        ELSE w[p]]

\* build_index_from_tree skips the entries whose path has an element named
\* ".git": they get neither a file nor an index entry.
ValidEntries(tree) ==
    [p \in Paths |-> IF InControlDir(p) THEN NoFile ELSE tree[p]]

\* A checkout that moves branch b to the commit HEAD resolved to.
CheckoutMovesBranch(s, b) ==
    [s EXCEPT !.branches = [@ EXCEPT ![b] = HeadShaOf(s)],
              !.head = [branch |-> b, sha |-> 0]]

\* _checkout_branch, from the point where branch b exists.
CheckoutF(s, b) ==
    [s EXCEPT !.head = [branch |-> b, sha |-> 0],
              !.index = ValidEntries(s.commits[s.branches[b]].tree),
              !.wt = CheckoutTree(s.wt, s.commits[s.branches[b]].tree)]

\* A creation that puts the new branch on the first commit.
CreateBranchAtFirst(s, b) == [s EXCEPT !.branches = [@ EXCEPT ![b] = 1]]

\* repo.refs[branch_ref] = repo.head()
CreateBranchF(s, b) == [s EXCEPT !.branches = [@ EXCEPT ![b] = HeadShaOf(s)]]

\* _git_checkout with branch_name = b
GitCheckout(b, create) ==
    /\ Idle /\ Calls("checkout") /\ inited /\ b \in work.names
    /\ IF branches[b] # 0
       THEN /\ Apply(CheckoutF(Cur, b))
            /\ last' = Result("checkout", TRUE, branches[b], FALSE)
       ELSE IF create /\ HeadSha # 0
       THEN /\ Apply(CheckoutF(CreateBranchF(Cur, b), b))
            /\ last' = Result("checkout", TRUE, HeadSha, FALSE)
       ELSE /\ last' = Result("checkout", FALSE, 0, FALSE)
            /\ UNCHANGED <<wt, index, commits, branches, head>>
    /\ scen' = ScenOff
    /\ UNCHANGED <<inited, work, conc, snap, fault, vpath>>

\* _git_branch with action = 'create'
GitBranchCreate(b, checkout) ==
    /\ Idle /\ Calls("branch") /\ inited /\ b \in work.names
    /\ IF branches[b] # 0 \/ HeadSha = 0
       THEN /\ last' = Result("branch", FALSE, 0, FALSE)
            /\ UNCHANGED <<wt, index, commits, branches, head>>
       ELSE /\ Apply(IF checkout THEN CheckoutF(CreateBranchF(Cur, b), b)
                     ELSE CreateBranchF(Cur, b))
            /\ last' = Result(IF checkout THEN "checkout" ELSE "branch", TRUE, HeadSha, FALSE)
    /\ scen' = ScenOff
    /\ UNCHANGED <<inited, work, conc, snap, fault, vpath>>

\* No branch is taken for the current one.
NeverCurrent(s, b) == FALSE

\* current_ref == b'ref: ' + branch_ref
IsCurrentBranch(s, b) == s.head.branch = b

\* A delete that removes the ref of the current branch.
DeleteCurrentBranchF(s, b) == [s EXCEPT !.branches = [@ EXCEPT ![s.head.branch] = 0]]

\* del repo.refs[branch_ref]
DeleteBranchF(s, b) == [s EXCEPT !.branches = [@ EXCEPT ![b] = 0]]

\* _git_branch with action = 'delete'
GitBranchDelete(b) ==
    /\ Idle /\ Calls("branch") /\ inited /\ b \in work.names
    /\ IF branches[b] = 0 \/ IsCurrentBranch(Cur, b)
       THEN /\ last' = Result("branchdelete", FALSE, 0, FALSE)
            /\ UNCHANGED <<wt, index, commits, branches, head>>
       ELSE /\ Apply(DeleteBranchF(Cur, b))
            /\ last' = Result("branchdelete", TRUE, branches[b], FALSE)
    /\ scen' = ScenOff
    /\ UNCHANGED <<inited, work, conc, snap, fault, vpath>>

(***************************************************************************)
(* Checkpoint list                                                         *)
(***************************************************************************)
Min(a, b) == IF a < b THEN a ELSE b

\* '[WORKFLOW-CHECKPOINT]' in message
IsCheckpointMsg(msg) == \E k \in 1..Len(msg) : msg[k] = CheckpointPrefix

\* repo.get_walker(max_entries=limit * 2): the first 2 * limit commits of
\* the parent chain of HEAD.
Walked(s, limit) ==
    LET ch == ChainOf(s.commits, HeadShaOf(s))
    IN  SubSeq(ch, 1, Min(2 * limit, Len(ch)))

\* The commits _git_list_checkpoints returns for limit: the walked commits
\* with the checkpoint text in their message, until limit of them are found.
ListCheckpoints(s, limit) ==
    LET cps == SelectSeq(Walked(s, limit), LAMBDA c : IsCheckpointMsg(s.commits[c].msg))
    IN  SubSeq(cps, 1, Min(limit, Len(cps)))

DefaultLimit == 50
Limits == {1, DefaultLimit}

\* _git_list_checkpoints
GitListCheckpoints(limit) ==
    /\ Idle /\ Calls("list") /\ inited
    /\ last' = Result("list", HeadSha # 0, 0, FALSE)
    /\ scen' = ScenOff
    /\ UNCHANGED <<inited, work, wt, index, commits, branches, head, conc, snap, fault, vpath>>

\* One file under commits and checkpoints, in a longer history.
HistLoad ==
    [files |-> FilesOf(MaxContent, 0, 0),
     ops |-> {"init", "write", "add", "commit", "checkpoint", "list"},
     names |-> {DefaultBranch}, commits |-> MaxCommits + 1]

InitHist == InitWith(HistLoad)

NextHist ==
    \/ GitInit
    \/ \E p \in Paths : \E c \in 1..MaxContent : WriteFile(p, c)
    \/ GitAddAll
    \/ \E m \in CommitMsgs : GitCommit(m)
    \/ \E m \in CheckpointMsgs : \E i \in {NoIdx, BoundIdx} : GitCheckpoint(m, i)
    \/ \E l \in Limits : GitListCheckpoints(l)

SpecHist == InitHist /\ [][NextHist]_vars

(***************************************************************************)
(* Diff and rename                                                         *)
(***************************************************************************)
Record(type, p) == [type |-> type, path |-> p]


\* _diff_staged behind _git_diff: tree_changes(HEAD tree, index tree), and no
\* record at all when HEAD resolves to no commit.
DiffStaged(s) ==
    IF HeadShaOf(s) = 0 THEN {}
    ELSE {Record("add", p) : p \in StagedAdd(s)}
             \cup {Record("delete", p) : p \in StagedDelete(s)}
             \cup {Record("modify", p) : p \in StagedModify(s)}

\* _get_file_sha: the hex digest of the blob of the content.
GetFileSha(c) == ShaChars([kind |-> "blob", n |-> c])

\* entry.sha.hex(): the hex of the id the index records, itself a hex string.
EntryShaHex(idx, p) == FullHex([kind |-> "blob", n |-> idx[p]])

\* _diff_unstaged behind _git_diff: no record at all when HEAD resolves to no
\* commit; else a delete for an index path without file, a modify for an index
\* path whose file digest differs from entry.sha.hex(), an add for a walked
\* file without index entry.
DiffUnstaged(s) ==
    IF HeadShaOf(s) = 0 THEN {}
    ELSE {Record("delete", p) : p \in {q \in Paths : s.index[q] # NoFile /\ s.wt[q] = NoFile}}
             \cup {Record("modify", p) :
                      p \in {q \in Paths : /\ s.index[q] # NoFile /\ s.wt[q] # NoFile
                                           /\ GetFileSha(s.wt[q]) # EntryShaHex(s.index, q)}}
             \cup {Record("add", p) :
                      p \in {q \in Paths : /\ s.wt[q] # NoFile /\ ~WalkSkipped(q)
                                           /\ s.index[q] = NoFile}}

\* _git_diff with staged = st
GitDiff(st) ==
    /\ Idle /\ Calls("diff") /\ inited
    /\ last' = Result(IF st THEN "diffstaged" ELSE "diffunstaged", TRUE, 0, FALSE)
    /\ scen' = ScenOff
    /\ UNCHANGED <<inited, work, wt, index, commits, branches, head, conc, snap, fault, vpath>>

\* None, for the old path of an add and the new path of a delete.
NoPath == <<>>

\* _get_change_paths and the old_path / new_path fields of a record
OldPath(r) == IF r.type = "add" THEN NoPath ELSE r.path
NewPath(r) == IF r.type = "delete" THEN NoPath ELSE r.path

\* A filter that looks at the new path only.
FilterSkipsByNewPath(r, f) == NewPath(r) # f

\* `if file_path_filter and old_path != file_path_filter and
\*  new_path != file_path_filter: continue`
FilterSkips(r, f) == OldPath(r) # f /\ NewPath(r) # f

\* _diff_staged with file_path_filter = f
DiffStagedFile(s, f) == {r \in DiffStaged(s) : ~FilterSkips(r, f)}

\* _diff_unstaged with file_path_filter = f: both loops skip every path
\* other than f.
DiffUnstagedFile(s, f) ==
    IF HeadShaOf(s) = 0 THEN {}
    ELSE {Record("delete", p) :
             p \in {q \in Paths : q = f /\ s.index[q] # NoFile /\ s.wt[q] = NoFile}}
             \cup {Record("modify", p) :
                      p \in {q \in Paths : /\ q = f
                                           /\ s.index[q] # NoFile /\ s.wt[q] # NoFile
                                           /\ GetFileSha(s.wt[q]) # EntryShaHex(s.index, q)}}
             \cup {Record("add", p) :
                      p \in {q \in Paths : /\ s.wt[q] # NoFile /\ ~WalkSkipped(q)
                                           /\ q = f /\ s.index[q] = NoFile}}

\* _git_diff with staged = st and file_path = f
GitDiffFile(st, f) ==
    /\ Idle /\ Calls("diff") /\ inited
    /\ last' = Result(IF st THEN "diffstagedfile" ELSE "diffunstagedfile", TRUE, 0, FALSE)
    /\ scen' = ScenOff
    /\ UNCHANGED <<inited, work, wt, index, commits, branches, head, conc, snap, fault, vpath>>

\* A rename that keeps the renamed entry only.
MvIndexOnly(idx, a, b) == [p \in Paths |-> IF p = b THEN idx[a] ELSE NoFile]

\* index[rel_dst] = index[rel_src]; del index[rel_src]
MvIndex(idx, a, b) == [idx EXCEPT ![b] = idx[a], ![a] = NoFile]

\* shutil.move(full_src, full_dst): os.rename, which does nothing when both
\* names are the same file.
MvFile(w, a, b) == IF a = b THEN w ELSE [w EXCEPT ![b] = w[a], ![a] = NoFile]

\* _git_mv with src = a and dst = b
GitMv(a, b) ==
    /\ Idle /\ Calls("mv") /\ inited
    /\ IF index[a] = NoFile \/ wt[a] = NoFile
       THEN /\ last' = Result("mv", FALSE, 0, FALSE)
            /\ UNCHANGED <<wt, index>>
       ELSE /\ wt' = MvFile(wt, a, b)
            /\ index' = MvIndex(index, a, b)
            /\ last' = Result("mv", TRUE, 0, FALSE)
    /\ scen' = ScenOff
    /\ UNCHANGED <<inited, work, commits, branches, head, conc, snap, fault, vpath>>

\* An index write that drops every entry.
RmIndexAll(idx, p) == EmptyTree

\* `if path_bytes in index: del index[path_bytes]` and index.write()
RmIndex(idx, p) == [idx EXCEPT ![p] = NoFile]

\* `if not cached and os.path.exists(full_file_path): os.remove(...)`
RmFile(w, p, cached) == IF cached THEN w ELSE [w EXCEPT ![p] = NoFile]

\* _git_rm
GitRm(p, cached) ==
    /\ Idle /\ Calls("rm") /\ inited
    /\ index' = RmIndex(index, p)
    /\ wt' = RmFile(wt, p, cached)
    /\ last' = Result("rm", TRUE, 0, FALSE)
    /\ scen' = ScenOff
    /\ UNCHANGED <<inited, work, commits, branches, head, conc, snap, fault, vpath>>

\* Two written files under staging, removals, renames and diffs.
DiffLoad ==
    [files |-> FilesOf(MaxContent, MaxNestedContent, 0),
     ops |-> {"init", "write", "delete", "add", "checkpoint", "mv", "diff", "rm"},
     names |-> {DefaultBranch}, commits |-> MaxDiffCommits]

\* The paths the calls of these runs name.
DiffPaths == {PX, PD, PG}

InitDiff == InitWith(DiffLoad)

NextDiff ==
    \/ GitInit
    \/ \E p \in Paths : \E c \in 1..MaxContent : WriteFile(p, c)
    \/ \E p \in Paths : DeleteFile(p)
    \/ \E p \in Paths : GitAddFile(p)
    \/ \E m \in {<<"cp1">>} : GitCheckpoint(m, NoIdx)
    \/ \E a \in DiffPaths : \E b \in DiffPaths : GitMv(a, b)
    \/ \E st \in BOOLEAN : GitDiff(st)
    \/ \E st \in BOOLEAN : \E f \in DiffPaths : GitDiffFile(st, f)
    \/ \E p \in DiffPaths : \E cached \in BOOLEAN : GitRm(p, cached)

SpecDiff == InitDiff /\ [][NextDiff]_vars

(***************************************************************************)
(* Two calls at once                                                       *)
(*                                                                         *)
(* execute() dispatches to the handlers without taking a lock, so a        *)
(* checkpoint and a restore of one workspace called from two threads       *)
(* interleave at their repository and file-system calls.                   *)
(***************************************************************************)
ConcLoad ==
    [files |-> FilesOf(1, MaxNestedContent, 0),
     ops |-> {"init", "write", "delete", "checkpoint"},
     names |-> {DefaultBranch}, commits |-> MaxCommits]

\* The message of the checkpoint called beside the restore.
ConcMsg == <<"cp1">>

\* Thread A calls _git_checkpoint and thread B _git_restore of commit c.
ConcStart(c) ==
    /\ Idle /\ inited
    /\ c \in 1..Len(commits) /\ Len(commits) < work.commits
    /\ conc' = [pcA |-> "stage", pcB |-> "head", c |-> c]
    /\ snap' = Cur
    /\ UNCHANGED <<inited, work, wt, index, commits, branches, head, last, scen, fault, vpath>>

\* Thread A: add(repo, paths=['.'])
CheckpointStage ==
    /\ conc.pcA = "stage"
    /\ Apply(CpStage(Cur))
    /\ conc' = [conc EXCEPT !.pcA = "commit"]
    /\ UNCHANGED <<inited, work, last, scen, snap, fault, vpath>>

\* Thread A: status(repo) and commit(...)
CheckpointCommit ==
    /\ conc.pcA = "commit"
    /\ Apply(CpCommit(Cur, ConcMsg, NoIdx))
    /\ conc' = [conc EXCEPT !.pcA = "done"]
    /\ UNCHANGED <<inited, work, last, scen, snap, fault, vpath>>

\* Thread B: repo.refs[b'HEAD'] = commit_sha and the first walk
RestoreHeadDelete ==
    /\ conc.pcB = "head"
    /\ Apply(RsHeadDelete(Cur, conc.c))
    /\ conc' = [conc EXCEPT !.pcB = "write"]
    /\ UNCHANGED <<inited, work, last, scen, snap, fault, vpath>>

\* Thread B: write_tree_to_path and the clean walk
RestoreWriteClean ==
    /\ conc.pcB = "write"
    /\ Apply(RsWriteClean(Cur, conc.c, TRUE))
    /\ conc' = [conc EXCEPT !.pcB = "done"]
    /\ UNCHANGED <<inited, work, last, scen, snap, fault, vpath>>

\* Both calls have returned.
ConcEnd ==
    /\ conc.pcA = "done" /\ conc.pcB = "done"
    /\ conc' = NoConc
    /\ snap' = NoSnap
    /\ last' = Result("none", TRUE, 0, FALSE)
    /\ UNCHANGED <<inited, work, wt, index, commits, branches, head, scen, fault, vpath>>

InitConc == InitWith(ConcLoad)

NextConc ==
    \/ GitInit
    \/ \E p \in Paths : \E c \in 1..MaxContent : WriteFile(p, c)
    \/ \E p \in Paths : DeleteFile(p)
    \/ \E m \in CheckpointMsgs : \E i \in {NoIdx, BoundIdx} : GitCheckpoint(m, i)
    \/ \E c \in 1..MaxCommits : ConcStart(c)
    \/ CheckpointStage
    \/ CheckpointCommit
    \/ RestoreHeadDelete
    \/ RestoreWriteClean
    \/ ConcEnd

SpecConc == InitConc /\ [][NextConc]_vars

(***************************************************************************)
(* Checkout under file-system failures                                     *)
(***************************************************************************)
\* The order in which a tree's entries are visited (entries sorted by name).
TreeOrder == <<PC, PG, PD, PX>>

Pos(p) == CHOOSE i \in 1..Len(TreeOrder) : TreeOrder[i] = p

\* build_index_from_tree opens a file for writing unless the file on disk
\* already has the blob's content.
NeedsWrite(w, tree, p) == tree[p] # NoFile /\ w[p] # tree[p]

\* The writes of build_index_from_tree that raise when the paths of F
\* cannot be written.
BuildFails(w, tree, F) == {p \in F : NeedsWrite(w, tree, p)}

\* build_index_from_tree: the entries are written in order up to the first
\* write that raises; there is no try around a write.
BuildIndexFromTree(w, tree, F) ==
    [p \in Paths |->
        IF /\ tree[p] # NoFile
           /\ \A q \in BuildFails(w, tree, F) : Pos(p) < Pos(q)
        THEN tree[p] ELSE w[p]]

\* _reset_working_tree opens every file of the tree's top level for
\* writing, without a try.
ResetFails(tree, F) == {p \in F : Len(p) = 1 /\ tree[p] # NoFile}

\* _remove_untracked_files: `try: os.remove(...) except: pass`
RemoveUntracked(w, tree, F) ==
    [p \in Paths |->
        IF w[p] # NoFile /\ tree[p] = NoFile /\ ~WalkSkipped(p) /\ p \notin F
        THEN NoFile ELSE w[p]]

\* Whether _checkout_branch reaches its return statement.
CheckoutFaultOk(s, b, F) ==
    /\ BuildFails(s.wt, s.commits[s.branches[b]].tree, F) = {}
    /\ ResetFails(s.commits[s.branches[b]].tree, F) = {}

\* _checkout_branch of an existing branch b while the paths of F can be
\* neither written nor removed: HEAD is switched first; the index file is
\* written at the end of build_index_from_tree.
CheckoutFaultF(s, b, F) ==
    LET tree == s.commits[s.branches[b]].tree
        s1 == [s EXCEPT !.head = [branch |-> b, sha |-> 0]]
        w1 == BuildIndexFromTree(s.wt, tree, F)
    IN  IF BuildFails(s.wt, tree, F) # {} THEN [s1 EXCEPT !.wt = w1]
        ELSE IF ResetFails(tree, F) # {} THEN [s1 EXCEPT !.index = tree, !.wt = w1]
        ELSE [s1 EXCEPT !.index = tree, !.wt = RemoveUntracked(w1, tree, F)]

\* The failed paths the result of _checkout_branch names: neither the
\* success result nor the error result has such a field.
FailedPaths(ok) == {p \in Paths : FALSE}

\* _git_checkout with branch_name = b while the file system fails on F
GitCheckoutFault(b, F) ==
    /\ Idle /\ Calls("checkout") /\ inited /\ b \in work.names
    /\ branches[b] # 0
    /\ Apply(CheckoutFaultF(Cur, b, F))
    /\ last' = Result("checkout", CheckoutFaultOk(Cur, b, F), branches[b], FALSE)
    /\ fault' = F
    /\ scen' = ScenOff
    /\ UNCHANGED <<inited, work, conc, snap, vpath>>

\* Two files, one branch, checkouts under failures.
FaultLoad ==
    [files |-> FilesOf(MaxContent, MaxNestedContent, 0),
     ops |-> {"init", "write", "delete", "checkpoint", "checkout"},
     names |-> {DefaultBranch}, commits |-> MaxCommits]

InitFault == InitWith(FaultLoad)

NextFault ==
    \/ GitInit
    \/ \E p \in Paths : \E c \in 1..MaxContent : WriteFile(p, c)
    \/ \E p \in Paths : DeleteFile(p)
    \/ GitCheckpoint(<<"cp1">>, NoIdx)
    \/ \E F \in SUBSET {PX, PD} : GitCheckoutFault(DefaultBranch, F)

SpecFault == InitFault /\ [][NextFault]_vars

(***************************************************************************)
(* Checkpoint metadata                                                     *)
(***************************************************************************)
\* The place of the first token tok of m, 0 when m has none.
FirstIdx(m, tok) ==
    IF \E k \in 1..Len(m) : m[k] = tok
    THEN CHOOSE k \in 1..Len(m) : m[k] = tok /\ \A j \in 1..(k - 1) : m[j] # tok
    ELSE 0

\* s.split(tok)[0]
BeforeFirst(m, tok) ==
    IF FirstIdx(m, tok) = 0 THEN m ELSE SubSeq(m, 1, FirstIdx(m, tok) - 1)

\* s.split(tok)[1], for an s that holds tok
AfterFirst(m, tok) ==
    BeforeFirst(SubSeq(m, FirstIdx(m, tok) + 1, Len(m)), tok)

RECURSIVE SkipSpaces(_)
SkipSpaces(m) ==
    IF m # <<>> /\ IsSpace(Head(m)) THEN SkipSpaces(Tail(m)) ELSE m

RECURSIVE UpToSpace(_)
UpToSpace(m) ==
    IF m = <<>> \/ IsSpace(Head(m)) THEN <<>> ELSE <<Head(m)>> \o UpToSpace(Tail(m))

\* s.split()[0]: the first run of text without whitespace, <<>> when there
\* is none (the IndexError).
FirstWord(m) == UpToSpace(SkipSpaces(m))

\* int(s): the number of a word that is one decimal number, NoIdx for the
\* ValueError.
IntOf(w) ==
    IF Len(w) = 1 /\ w[1] \in {IntStr(7), IntStr(8), IntStr(0)}
    THEN (IF w[1] = IntStr(7) THEN 7 ELSE IF w[1] = IntStr(8) THEN 8 ELSE 0)
    ELSE NoIdx

\* bound_index of _git_list_checkpoints: None (NoIdx) unless the text after
\* the first 'message_index=' starts with a number.
ListedBoundIndex(msg) ==
    IF FirstIdx(msg, "message_index=") = 0 THEN NoIdx
    ELSE IntOf(FirstWord(AfterFirst(msg, "message_index=")))

\* message.replace('[WORKFLOW-CHECKPOINT]', '')
WithoutPrefix(msg) == SelectSeq(msg, LAMBDA t : t # CheckpointPrefix)

\* clean_message of _git_list_checkpoints
ListedMessage(msg) ==
    IF FirstIdx(Strip(WithoutPrefix(msg)), "|") = 0
    THEN Strip(WithoutPrefix(msg))
    ELSE Strip(BeforeFirst(Strip(WithoutPrefix(msg)), "|"))

\* The messages given to checkpoint: plain, with a '|', with the text
\* 'message_index=' and a number, with that text alone.
MetaMsgs ==
    {<<"cp1">>, <<"a", "|", "b">>, <<"message_index=", "8">>, <<"message_index=", "x">>}

\* The messages given to commit: plain, the checkpoint text in the middle,
\* the checkpoint text in front.
MetaCommitMsgs ==
    {<<"first">>, <<"see", " ", CheckpointPrefix>>, <<CheckpointPrefix, " ", "first">>}

\* One file under commits and checkpoints with these messages.
MetaLoad ==
    [files |-> FilesOf(MaxContent, 0, 0),
     ops |-> {"init", "write", "add", "commit", "checkpoint", "list"},
     names |-> {DefaultBranch}, commits |-> MaxCommits]

InitMeta == InitWith(MetaLoad)

NextMeta ==
    \/ GitInit
    \/ \E p \in Paths : \E c \in 1..MaxContent : WriteFile(p, c)
    \/ GitAddAll
    \/ \E m \in MetaCommitMsgs : GitCommit(m)
    \/ \E m \in MetaMsgs : \E i \in {NoIdx, BoundIdx} : GitCheckpoint(m, i)
    \/ \E l \in Limits : GitListCheckpoints(l)

SpecMeta == InitMeta /\ [][NextMeta]_vars

(***************************************************************************)
(* _validate_path                                                          *)
(***************************************************************************)
\* A path is a sequence of components and a component a sequence of
\* characters; abs tells whether the path starts with "/".
MaxPathLen == 3

Up == <<".", ".">>

\* The components of user paths: "..", "a", "s" and "s2".
Components == {Up, <<"a">>, <<"s">>, <<"s", "2">>}

\* sandbox_path: "/s"
SandboxRoot == <<<<"s">>>>

RECURSIVE SeqsUpTo(_)
SeqsUpTo(n) ==
    IF n = 0 THEN {<<>>}
    ELSE SeqsUpTo(n - 1)
            \cup {Append(q, c) : q \in {r \in SeqsUpTo(n - 1) : Len(r) = n - 1},
                                 c \in Components}

UserPaths == SeqsUpTo(MaxPathLen)

\* os.path.join(sandbox_path, user_path): an absolute second argument
\* discards the first.
JoinPath(root, user, abs) == IF abs THEN user ELSE root \o user

RECURSIVE NormFrom(_, _)
\* os.path.normpath of an absolute path: ".." drops the component before
\* it, and is dropped itself at the root.
NormFrom(done, rest) ==
    IF rest = <<>> THEN done
    ELSE IF Head(rest) = Up
         THEN NormFrom(IF done = <<>> THEN <<>> ELSE SubSeq(done, 1, Len(done) - 1),
                       Tail(rest))
         ELSE NormFrom(Append(done, Head(rest)), Tail(rest))

NormPath(comps) == NormFrom(<<>>, comps)

RECURSIVE PathStr(_)
\* The characters of an absolute path ("/" alone is not needed here).
PathStr(comps) ==
    IF comps = <<>> THEN <<>> ELSE <<"/">> \o Head(comps) \o PathStr(Tail(comps))

\* full_path.startswith(os.path.normpath(sandbox_path)): a test on the
\* characters of the two strings.
StartsWith(full, root) == IsPrefix(PathStr(root), PathStr(full))

\* full_path = os.path.normpath(os.path.join(sandbox_path, user_path))
FullPath(root, user, abs) == NormPath(JoinPath(root, user, abs))

\* _validate_path raises the ValueError.
ValidateRaises(root, user, abs) ==
    ~StartsWith(FullPath(root, user, abs), NormPath(root))

\* A path is the root or lies inside the root directory.
Inside(full, root) == IsPrefix(root, full)

\* _validate_path(sandbox_path, user_path)
ValidatePath ==
    /\ vpath.out = "none"
    /\ vpath' = [vpath EXCEPT
                    !.out = IF ValidateRaises(SandboxRoot, vpath.user_path, vpath.abs)
                            THEN "raise" ELSE "return",
                    !.full_path = FullPath(SandboxRoot, vpath.user_path, vpath.abs)]
    /\ UNCHANGED <<inited, work, wt, index, commits, branches, head, last, scen,
                   conc, snap, fault>>

\* The call has returned or raised; the next input is looked at.
ValidateDone ==
    /\ vpath.out # "none"
    /\ \E u \in UserPaths : \E a \in BOOLEAN :
          vpath' = [user_path |-> u, abs |-> a, out |-> "none", full_path |-> <<>>]
    /\ UNCHANGED <<inited, work, wt, index, commits, branches, head, last, scen,
                   conc, snap, fault>>

InitPath ==
    /\ InitRepo(TraceLoad)
    /\ \E u \in UserPaths : \E a \in BOOLEAN :
          vpath = [user_path |-> u, abs |-> a, out |-> "none", full_path |-> <<>>]

NextPath == ValidatePath \/ ValidateDone

SpecPath == InitPath /\ [][NextPath]_vars

(***************************************************************************)
(* A file inside the control directory                                     *)
(***************************************************************************)
\* A top-level file, a file in .github and a file the tool layer wrote
\* into .git.
CtlLoad ==
    [files |-> [FilesOf(MaxNestedContent, 0, MaxNestedContent)
                   EXCEPT ![PC] = MaxNestedContent],
     ops |-> BaseOps \cup {"add", "checkout"},
     names |-> {DefaultBranch}, commits |-> MaxDiffCommits]

InitCtl == InitWith(CtlLoad)

NextCtl ==
    \/ GitInit
    \/ \E p \in Paths : \E c \in 1..MaxContent : WriteFile(p, c)
    \/ \E p \in Paths : DeleteFile(p)
    \/ GitAddAll
    \/ \E p \in Paths : GitAddFile(p)
    \/ GitCheckpoint(<<"cp1">>, NoIdx)
    \/ \E id \in RestoreInputs : \E clean \in BOOLEAN : GitRestore(id, clean)
    \/ GitCheckout(DefaultBranch, FALSE)

SpecCtl == InitCtl /\ [][NextCtl]_vars

Next ==
    \/ GitInit
    \/ \E p \in Paths : \E c \in 1..MaxContent : WriteFile(p, c)
    \/ \E p \in Paths : DeleteFile(p)
    \/ GitAddAll
    \/ \E p \in Paths : GitAddFile(p)
    \/ \E m \in CommitMsgs : GitCommit(m)
    \/ GitStatus
    \/ \E n \in {1, DefaultMaxCount} : GitLog(n)
    \/ \E m \in CheckpointMsgs : \E i \in {NoIdx, BoundIdx} : GitCheckpoint(m, i)
    \/ \E id \in RestoreInputs : \E clean \in BOOLEAN : GitRestore(id, clean)
    \/ \E b \in BranchNames : \E create \in BOOLEAN : GitCheckout(b, create)
    \/ \E b \in BranchNames : \E checkout \in BOOLEAN : GitBranchCreate(b, checkout)
    \/ \E b \in BranchNames : GitBranchDelete(b)

Spec == Init /\ [][Next]_vars

(***************************************************************************)
(* Properties                                                              *)
(***************************************************************************)
\* The step is a call of _git_restore: every call records itself in last.
RestoreStep == Idle /\ last'.op = "restore"

\* The step is a call of _git_checkpoint.
CheckpointStep(m, i) == last'.op = "checkpoint" /\ GitCheckpoint(m, i)

\* The hex of the objects of the store that start with id.
Matches(id) == {o \in Store(Cur) : IsPrefix(id, FullHex(o))}

\* C1: restore(c, clean=true) of an existing commit c succeeds and leaves on
\* disk exactly the files of c's tree with the contents of their blobs.
C1_RestoreCleanExact ==
    [][\A c \in 1..Len(commits) :
          (last'.op = "restore" /\ GitRestore(FullHex(CommitObj(c)), TRUE))
              => (last'.ok /\ wt' = commits[c].tree)]_vars

\* C2: after a successful checkout of a branch the working tree holds exactly
\* the files of the tree of the branch's commit.
C2_CheckoutExact ==
    [][(last'.op = "checkout" /\ last'.ok) => wt' = commits[last'.sha].tree]_vars

\* C3: a restore of the id a checkpoint just returned leaves every file that
\* was on disk at the checkpoint on disk with the same content.
C3_RestoreCheckpointFixedPoint ==
    [][\A clean \in BOOLEAN :
          (/\ last.op = "checkpoint" /\ last.ok
           /\ last'.op = "restore"
           /\ GitRestore(FullHex(CommitObj(last.sha)), clean))
              => \A p \in Paths : wt[p] # NoFile => wt'[p] = wt[p]]_vars

\* The results of the first nine calls of the end-to-end trace.
TraceUpToCp2 ==
    /\ scen.step >= 1 /\ scen.step <= 9 => last.ok
    /\ scen.step = 4 => /\ StagedAdd(Cur) = {PX}
                        /\ StagedDelete(Cur) = {} /\ StagedModify(Cur) = {}
                        /\ Unstaged(Cur) = {}
    /\ scen.step = 6 => /\ LogEntries(DefaultMaxCount) = <<1>>
                        /\ LogMessage(1) = <<"first">>
    /\ scen.step = 7 => last.sha = 1 /\ commits[1].msg = <<"first">> /\ ~last.chg
    /\ scen.step = 9 => last.sha # scen.cp1 /\ last.sha = Len(commits) /\ last.chg

\* C4: every call of the trace init, write x.txt "hi", add, status, commit
\* "first", log, checkpoint "cp1", write x.txt "bye", checkpoint "cp2",
\* restore of the checkpoint id of "cp1" succeeds with the stated results,
\* and x.txt holds "hi" after the restore.
C4_EndToEndTrace ==
    /\ TraceUpToCp2
    /\ scen.step = 10 => last.ok /\ wt[PX] = 1

\* C5: a checkpoint and a restore called at once leave HEAD, the refs, the
\* index and the working tree as one of the two serial orders leaves them.
C5_Serializable ==
    (conc.pcA = "done" /\ conc.pcB = "done")
        => Cur \in {RestoreF(CheckpointF(snap, ConcMsg, NoIdx), conc.c, TRUE),
                    CheckpointF(RestoreF(snap, conc.c, TRUE), ConcMsg, NoIdx)}

\* C6: a checkpoint that, after staging everything, finds the staged tree
\* equal to the tree of HEAD's commit creates no commit, leaves HEAD and the
\* branch refs alone, returns HEAD's commit id and has_changes = false; a
\* checkpoint right after a successful checkpoint returns the same id.
C6_CheckpointNoOp ==
    [][\A m \in CheckpointMsgs : \A i \in {NoIdx, BoundIdx} :
          CheckpointStep(m, i) =>
              /\ (HeadSha # 0 /\ BuildTree(StageAll(index, wt)) = HeadTree)
                     => /\ commits' = commits /\ branches' = branches /\ head' = head
                        /\ last'.ok /\ last'.sha = HeadSha /\ ~last'.chg
              /\ (last.op = "checkpoint" /\ last.ok)
                     => last'.ok /\ last'.sha = last.sha /\ commits' = commits]_vars

\* A checkpoint returned the id of the checkpoint commit HEAD was already on.
C6_Witness ==
    /\ last.op = "checkpoint" /\ last.ok /\ ~last.chg
    /\ commits[last.sha].msg[1] = CheckpointPrefix
    /\ HeadSha = last.sha

\* The files of the working tree as a tree.
WtTree == [p \in Paths |-> BlobId(wt[p])]

\* C7: a checkpoint of a working tree that differs from HEAD's tree appends
\* exactly one commit: its tree is the tree of the index after staging the
\* whole working tree, its parent the commit HEAD resolved to (none when HEAD
\* resolved to nothing), its message the prefix, the caller's message and,
\* only for a supplied index, " | message_index=<index>"; HEAD resolves to it
\* and its id is returned.
C7_CheckpointCommits ==
    [][\A m \in CheckpointMsgs : \A i \in {NoIdx, BoundIdx} :
          (CheckpointStep(m, i) /\ WtTree # HeadTree) =>
              LET n == Len(commits) + 1 IN
              /\ Len(commits') = n /\ SubSeq(commits', 1, n - 1) = commits
              /\ index' = StageAll(index, wt)
              /\ commits'[n].tree = BuildTree(index') /\ commits'[n].tree = WtTree
              /\ commits'[n].parent = HeadSha
              /\ commits'[n].msg =
                     <<"[WORKFLOW-CHECKPOINT]", " ">> \o m
                         \o (IF i = NoIdx THEN <<>>
                             ELSE <<" ", "|", " ", "message_index=", "7">>)
              /\ HeadSha' = n
              /\ last'.ok /\ last'.sha = n /\ last'.chg]_vars

\* A checkpoint with a bound index committed on top of an earlier commit.
C7_Witness ==
    /\ last.op = "checkpoint" /\ last.ok /\ last.chg
    /\ last.sha = Len(commits)
    /\ commits[last.sha].parent # 0
    /\ Len(commits[last.sha].msg) > 3

\* C8 as stated: after a successful restore HEAD is detached at the commit
\* and no branch ref has changed.
C8_RestoreDetaches ==
    [][(RestoreStep /\ last'.ok)
          => /\ head' = [branch |-> "", sha |-> last'.sha]
             /\ branches' = branches]_vars

\* C8: a successful restore leaves HEAD on the branch it was on; that branch
\* points at the restored commit and no other branch ref has changed.
C8_RestoreMovesBranch ==
    [][(RestoreStep /\ last'.ok)
          => /\ head' = head /\ head.branch # ""
             /\ branches'[head.branch] = last'.sha
             /\ \A b \in BranchNames \ {head.branch} : branches'[b] = branches[b]]_vars

\* A successful restore on branch feature moved it to the commit of master.
C8_Witness ==
    /\ last.op = "restore" /\ last.ok /\ last.chg
    /\ head.branch = "feature"
    /\ branches["feature"] = last.sha /\ branches["master"] = last.sha

\* C9: a restore of a prefix that two or more objects of the store share, and
\* that is the id of none, fails and leaves the repository and the working
\* tree alone.
C9_AmbiguousPrefixRejected ==
    [][\A id \in RestoreInputs : \A clean \in BOOLEAN :
          (/\ last'.op = "restore"
           /\ Cardinality(Matches(id)) >= 2
           /\ \A o \in Store(Cur) : FullHex(o) # id
           /\ GitRestore(id, clean))
              => ~last'.ok /\ UNCHANGED <<wt, index, commits, branches, head>>]_vars

\* C10: a restore of the checkpoint_id or of the full_sha a successful
\* checkpoint just returned resolves to the commit of that checkpoint when
\* no other object shares the checkpoint_id.
C10_ReturnedIdsAccepted ==
    [][\A clean \in BOOLEAN :
       \A id \in {ShortHex(CommitObj(last.sha)), FullHex(CommitObj(last.sha))} :
          (/\ last.op = "checkpoint" /\ last.ok
           /\ last'.op = "restore"
           /\ Matches(ShortHex(CommitObj(last.sha))) = {CommitObj(last.sha)}
           /\ GitRestore(id, clean))
              => /\ ResolveError(Cur, id) = ""
                 /\ ResolveTargets(Cur, id) = {CommitObj(last.sha)}
                 /\ HeadSha' = last.sha]_vars

\* The checkpoint commits of the parent chain of HEAD, newest first.
ChainCheckpoints ==
    SelectSeq(ChainOf(commits, HeadSha), LAMBDA c : IsCheckpointMsg(commits[c].msg))

\* C11: list_checkpoints(limit) returns the min(limit, n) newest of the n
\* checkpoint commits of the parent chain of HEAD, newest first, none twice.
C11_ListNewestCheckpoints ==
    [][\A l \in Limits :
          (last'.op = "list" /\ HeadSha # 0 /\ GitListCheckpoints(l))
              => /\ last'.ok
                 /\ ListCheckpoints(Cur, l)
                        = SubSeq(ChainCheckpoints, 1, Min(l, Len(ChainCheckpoints)))]_vars

\* C12: a delete of the branch HEAD names fails and leaves every ref alone;
\* a delete of another existing branch succeeds, removes that branch only and
\* leaves HEAD, the other branches, the index and the working tree alone; a
\* delete of a branch that does not exist fails.
C12_BranchDelete ==
    [][\A b \in BranchNames :
          (last'.op = "branchdelete" /\ GitBranchDelete(b)) =>
              IF head.branch = b \/ branches[b] = 0
              THEN ~last'.ok /\ branches' = branches /\ head' = head
              ELSE /\ last'.ok
                   /\ branches'[b] = 0
                   /\ \A o \in BranchNames \ {b} : branches'[o] = branches[o]
                   /\ UNCHANGED <<head, index, wt, commits>>]_vars

\* A branch other than the current one was deleted.
C12_Witness ==
    /\ last.op = "branchdelete" /\ last.ok
    /\ branches["feature"] = 0 /\ head.branch = "master" /\ HeadSha # 0

\* C13: a creation of a branch whose name is taken fails and leaves every ref
\* alone; a creation under a free name, without checkout, adds that branch at
\* the commit HEAD resolves to and leaves HEAD, the other branches, the index
\* and the working tree alone.
C13_BranchCreate ==
    [][\A b \in BranchNames :
          (last'.op = "branch" /\ GitBranchCreate(b, FALSE)) =>
              /\ branches[b] # 0
                     => ~last'.ok /\ branches' = branches /\ head' = head
              /\ (branches[b] = 0 /\ HeadSha # 0)
                     => /\ last'.ok
                        /\ branches'[b] = HeadSha
                        /\ \A o \in BranchNames \ {b} : branches'[o] = branches[o]
                        /\ UNCHANGED <<head, index, wt, commits>>]_vars

\* Branch feature was created at the second commit, HEAD staying on master.
C13_Witness ==
    /\ last.op = "branch" /\ last.ok
    /\ head.branch = "master" /\ branches["master"] = 2
    /\ branches["feature"] = 2

\* The step is a call of _git_commit with message m.
CommitStep(m) == last'.op = "commit" /\ GitCommit(m)

\* C14: a commit fails whenever the tree of the index equals the tree of
\* HEAD's commit (the empty tree when there is no commit); no commit is
\* created and HEAD, the branch refs, the index and the working tree stay.
C14_CommitNothingStaged ==
    [][\A m \in CommitMsgs :
          (CommitStep(m) /\ BuildTree(index) = HeadTree)
              => ~last'.ok /\ UNCHANGED <<commits, head, branches, index, wt>>]_vars

\* A commit failed on top of an existing commit.
C14_Witness ==
    /\ last.op = "commit" /\ ~last.ok
    /\ HeadSha # 0 /\ BuildTree(index) = HeadTree

\* C15: a successful commit appends one commit with the tree of the index
\* and the commit HEAD resolved to as parent (none for the first), moves only
\* the ref HEAD leads to, leaves the index and the working tree alone, and
\* leaves nothing staged.
C15_CommitFrame ==
    [][\A m \in CommitMsgs :
          (CommitStep(m) /\ last'.ok) =>
              LET n == Len(commits) + 1 IN
              /\ Len(commits') = n /\ SubSeq(commits', 1, n - 1) = commits
              /\ commits'[n] = [tree |-> BuildTree(index), parent |-> HeadSha, msg |-> m]
              /\ head' = head /\ head.branch # ""
              /\ branches'[head.branch] = n
              /\ \A o \in BranchNames \ {head.branch} : branches'[o] = branches[o]
              /\ index' = index /\ wt' = wt
              /\ BuildTree(index') = HeadTree'
              /\ last'.sha = n]_vars

\* A second commit was made while the working tree differed from the index.
C15_Witness ==
    /\ last.op = "commit" /\ last.ok
    /\ commits[last.sha].parent # 0
    /\ Unstaged(Cur) # {}

\* C16: in a repository with a commit, the staged diff holds an add for
\* every path of the index tree that HEAD's tree lacks, a delete for every
\* path of HEAD's tree that the index tree lacks, a modify for every path of
\* both with different blob ids, and nothing else; it is empty when the two
\* trees are equal.
C16_StagedDiffExact ==
    [][(last'.op = "diffstaged" /\ GitDiff(TRUE) /\ HeadSha # 0) =>
          /\ \A p \in Paths :
                /\ Record("add", p) \in DiffStaged(Cur)
                       <=> (index[p] # NoFile /\ HeadTree[p] = NoFile)
                /\ Record("delete", p) \in DiffStaged(Cur)
                       <=> (index[p] = NoFile /\ HeadTree[p] # NoFile)
                /\ Record("modify", p) \in DiffStaged(Cur)
                       <=> (/\ index[p] # NoFile /\ HeadTree[p] # NoFile
                            /\ index[p] # HeadTree[p])
          /\ \A r \in DiffStaged(Cur) : r.type \in {"add", "delete", "modify"}
          /\ BuildTree(index) = HeadTree => DiffStaged(Cur) = {}]_vars

\* A staged diff with an add, a delete and a modify was taken.
C16_Witness ==
    /\ last.op = "diffstaged" /\ HeadSha # 0
    /\ {r.type : r \in DiffStaged(Cur)} = {"add", "delete", "modify"}

\* C17: in every repository state the unstaged diff holds a delete for every
\* index path without file, a modify for every index path whose file content
\* has another hash than the index records, an add for every file without
\* index entry, and nothing else.
C17_UnstagedDiffExact ==
    [][(last'.op = "diffunstaged" /\ GitDiff(FALSE)) =>
          DiffUnstaged(Cur) =
              {Record("delete", p) :
                   p \in {q \in Paths : index[q] # NoFile /\ wt[q] = NoFile}}
                \cup {Record("modify", p) :
                         p \in {q \in Paths : /\ index[q] # NoFile /\ wt[q] # NoFile
                                              /\ BlobId(wt[q]) # index[q]}}
                \cup {Record("add", p) :
                         p \in {q \in Paths : wt[q] # NoFile /\ index[q] = NoFile}}]_vars

\* C18: a rename of a path a that is in the index and in HEAD's tree leaves
\* the staged records of every path other than a and b as they were, so
\* after a rename in a state with nothing staged the staged diff has records
\* for a and b only, the delete of a among them.
C18_RenameOnlyTouchesItsPaths ==
    [][\A a \in Paths : \A b \in Paths \ {a} :
          (/\ last'.op = "mv" /\ last'.ok
           /\ HeadSha # 0 /\ HeadTree[a] # NoFile
           /\ GitMv(a, b)) =>
              /\ \A r \in DiffStaged(Cur) \cup DiffStaged(Cur)' :
                    r.path \notin {a, b} => (r \in DiffStaged(Cur) <=> r \in DiffStaged(Cur)')
              /\ DiffStaged(Cur) = {}
                     => /\ \A r \in DiffStaged(Cur)' : r.path \in {a, b}
                        /\ Record("delete", a) \in DiffStaged(Cur)']_vars

\* x.txt was renamed to d/y.txt beside a third committed file, nothing else
\* being staged.
C18_Witness ==
    /\ last.op = "mv" /\ last.ok /\ HeadSha # 0
    /\ HeadTree[PG] # NoFile /\ index[PG] = HeadTree[PG]
    /\ DiffStaged(Cur) = {Record("delete", PX), Record("add", PD)}

\* C20: in a restore the write pass has completed before any file is
\* deleted: at the step of _git_restore that removes a file, every file of
\* the target commit's tree is on disk with the tree's content.
C20_WritePassBeforeDeletes ==
    [][(/\ conc.pcB = "head" /\ conc'.pcB = "write"
        /\ \E p \in Paths : wt[p] # NoFile /\ wt'[p] = NoFile) =>
          \A p \in Paths :
              commits[conc.c].tree[p] # NoFile => wt[p] = commits[conc.c].tree[p]]_vars

\* C19: in a checkout during which single files cannot be written or
\* removed, the call still succeeds, every other path of the target tree is
\* written, every other extra file is deleted, and the result names each
\* path that failed.
C19_SyncFailuresPerPath ==
    [][\A F \in SUBSET Paths :
          (/\ last'.op = "checkout" /\ fault' = F
           /\ GitCheckoutFault(head.branch, F)) =>
              /\ last'.ok
              /\ \A p \in Paths \ F :
                    /\ HeadTree[p] # NoFile => wt'[p] = HeadTree[p]
                    /\ (HeadTree[p] = NoFile /\ ~WalkSkipped(p)) => wt'[p] = NoFile
              /\ \A p \in F :
                    (\/ NeedsWrite(wt, HeadTree, p)
                     \/ (wt[p] # NoFile /\ HeadTree[p] = NoFile))
                        => p \in FailedPaths(last'.ok)]_vars

\* C21: no add, checkpoint, checkout or restore stages, overwrites or
\* deletes a file inside the control directory: such a call leaves the file
\* and the index entry of every path under .git as they were, and the index
\* never holds such a path.
C21_ControlDirExcluded ==
    [][last'.op \in {"add", "checkpoint", "checkout", "restore"} =>
          \A p \in Paths :
              InControlDir(p) =>
                  /\ wt'[p] = wt[p]
                  /\ index'[p] = NoFile]_vars

\* C22: restore(c, clean=false) deletes no file that is on disk and absent
\* from c's tree, at the root or in a nested directory.
C22_RestoreKeepsUntracked ==
    [][last'.op = "restore" =>
          \A id \in RestoreInputs : \A o \in ResolveTargets(Cur, id) :
              (/\ ResolveError(Cur, id) = "" /\ o.kind = "commit"
               /\ GitRestore(id, FALSE)
               /\ Apply(RestoreF(Cur, o.n, FALSE))) =>
                  \A p \in Paths :
                      (wt[p] # NoFile /\ commits[o.n].tree[p] = NoFile)
                          => wt'[p] = wt[p]]_vars

\* C23: after a successful restore(c) the index holds exactly the entries of
\* c's tree, the tree of HEAD's commit, so that nothing is staged.
C23_RestoreResetsIndex ==
    [][(last'.op = "restore" /\ last'.ok) =>
          /\ BuildTree(index') = commits'[last'.sha].tree
          /\ ~HasStaged(Cur)']_vars

\* C24: remove(p, cached) succeeds; it removes the index entry of p if there
\* is one and leaves every other entry as it was; with cached=true no file is
\* touched, so that on a path without entry nothing changes; with
\* cached=false the file at p is deleted and no other file is touched.
C24_RemoveFrame ==
    [][\A p \in Paths : \A cached \in BOOLEAN :
          (last'.op = "rm" /\ GitRm(p, cached)) =>
              /\ last'.ok
              /\ index'[p] = NoFile
              /\ \A q \in Paths \ {p} : index'[q] = index[q] /\ wt'[q] = wt[q]
              /\ cached => wt' = wt
              /\ (cached /\ index[p] = NoFile) => index' = index
              /\ ~cached => wt'[p] = NoFile
              /\ UNCHANGED <<commits, branches, head>>]_vars

\* The entry of the committed x.txt was removed beside the entry of another
\* path, the file x.txt staying on disk.
C24_Witness ==
    /\ last.op = "rm"
    /\ HeadTree[PX] # NoFile /\ index[PX] = NoFile /\ wt[PX] # NoFile
    /\ index[PD] # NoFile

\* C25: after a successful add(".") every file on disk outside the control
\* directory has an index entry holding the hash of the file's content.
C25_AddAllStagesEveryFile ==
    [][(last'.op = "add" /\ last'.ok /\ GitAddAll) =>
          \A p \in Paths :
              (wt'[p] # NoFile /\ ~InControlDir(p)) => index'[p] = BlobId(wt'[p])]_vars

\* Every commit of the store is still there after the step, with the same
\* tree, parent and message.
CommitsPersist ==
    \A c \in 1..Len(commits) : Len(commits') >= c /\ commits'[c] = commits[c]

\* C26: no step deletes or changes a commit, and a restore with the id that
\* commit or checkpoint returned for a commit still succeeds, whatever
\* branch deletions, checkouts and restores came before.
C26_ObjectsNeverDeleted ==
    [][/\ CommitsPersist
       /\ last'.op = "restore" =>
             \A c \in 1..Len(commits) : \A clean \in BOOLEAN :
                 GitRestore(ShortHex(CommitObj(c)), clean) => last'.ok]_vars

\* C27: _validate_path returns the root or a path inside the root directory,
\* or raises; a path that resolves outside the root is rejected.
C27_PathConfinement ==
    vpath.out = "return" => Inside(vpath.full_path, SandboxRoot)

\* C28: for both diff kinds and every path f, the diff with file filter f
\* holds exactly the records of the unfiltered diff whose old path or new
\* path is f.
C28_FilterIsRestriction ==
    [][\A f \in Paths : \A st \in BOOLEAN :
          (last'.op \in {"diffstagedfile", "diffunstagedfile"} /\ GitDiffFile(st, f)) =>
              /\ DiffStagedFile(Cur, f)
                    = {r \in DiffStaged(Cur) : OldPath(r) = f \/ NewPath(r) = f}
              /\ DiffUnstagedFile(Cur, f)
                    = {r \in DiffUnstaged(Cur) : OldPath(r) = f \/ NewPath(r) = f}]_vars

\* A filtered diff was taken where the staged diff has a delete and a record
\* of another path, and the unstaged diff records of two paths.
C28_Witness ==
    /\ last.op \in {"diffstagedfile", "diffunstagedfile"}
    /\ \E r \in DiffStaged(Cur) : r.type = "delete"
    /\ Cardinality({r.path : r \in DiffStaged(Cur)}) > 1
    /\ Cardinality({r.path : r \in DiffUnstaged(Cur)}) > 1

\* C29: a checkpoint called with message m and bound index i that made a
\* new commit is listed by list_checkpoints with message m and with bound
\* index i, null when it was called without one.
C29_MetadataRoundTrip ==
    [][\A m \in MetaMsgs : \A i \in {NoIdx, BoundIdx} :
          (/\ last'.op = "checkpoint" /\ last'.chg
           /\ GitCheckpoint(m, i)) =>
              /\ \E k \in 1..Len(ListCheckpoints(Cur, DefaultLimit)') :
                    ListCheckpoints(Cur, DefaultLimit)'[k] = last'.sha
              /\ ListedMessage(commits'[last'.sha].msg) = m
              /\ ListedBoundIndex(commits'[last'.sha].msg) = i]_vars

\* C30: list_checkpoints lists a commit only if its message begins with the
\* checkpoint prefix.
C30_ListedOnlyWithPrefix ==
    [][\A l \in Limits :
          (last'.op = "list" /\ HeadSha # 0 /\ GitListCheckpoints(l)) =>
              \A k \in 1..Len(ListCheckpoints(Cur, l)) :
                  Head(commits[ListCheckpoints(Cur, l)[k]].msg) = CheckpointPrefix]_vars

\* is_clean of _git_status: nothing staged, nothing unstaged, nothing
\* untracked outside the control directory.
IsClean(s) ==
    /\ ~HasStaged(s)
    /\ Unstaged(s) = {}
    /\ {p \in Untracked(s) : ~InControlDir(p)} = {}

\* C31: after a successful checkout of branch b, HEAD is symbolic and names
\* b, the index holds exactly the entries of the tree of b's commit, no
\* branch that existed points elsewhere, and status is clean.
C31_CheckoutResult ==
    [][\A b \in BranchNames : \A create \in BOOLEAN :
          (last'.op = "checkout" /\ last'.ok /\ GitCheckout(b, create)) =>
              /\ head' = [branch |-> b, sha |-> 0]
              /\ branches'[b] # 0
              /\ index' = commits'[branches'[b]].tree
              /\ \A o \in BranchNames : branches[o] # 0 => branches'[o] = branches[o]
              /\ IsClean(Cur)']_vars

\* C32: a checkout of a branch that does not exist fails with create=false
\* and changes nothing; with create=true it creates the branch at the commit
\* HEAD resolves to and checks it out (and fails, changing nothing, when
\* HEAD resolves to no commit); a checkout of an existing branch checks it
\* out without moving it, whatever create is.
C32_CheckoutMissingOrCreate ==
    [][\A b \in BranchNames : \A create \in BOOLEAN :
          (last'.op = "checkout" /\ GitCheckout(b, create)) =>
              IF branches[b] = 0 /\ (~create \/ HeadSha = 0)
              THEN /\ ~last'.ok
                   /\ UNCHANGED <<head, branches, index, wt, commits>>
              ELSE /\ last'.ok
                   /\ head' = [branch |-> b, sha |-> 0]
                   /\ branches'[b] = IF branches[b] = 0 THEN HeadSha ELSE branches[b]
                   /\ \A o \in BranchNames \ {b} : branches'[o] = branches[o]
                   /\ commits' = commits]_vars

\* A checkout has created the branch feature beside master, and a checkout
\* of the existing master from there has left both where they were.
C32_Witness ==
    /\ last.op = "checkout" /\ last.ok
    /\ head.branch = DefaultBranch
    /\ branches["feature"] # 0 /\ branches[DefaultBranch] # 0
    /\ branches["feature"] # branches[DefaultBranch]

(***************************************************************************)
(* Single-file checkout and the read-only calls                            *)
(***************************************************************************)
\* `file_path_bytes not in tree` of _checkout_file: the lookup is made in
\* the entries of HEAD's root tree, which are keyed by one name each, so a
\* path of more than one component is never found.
InHeadTree(s, p) ==
    /\ HeadShaOf(s) # 0
    /\ Len(p) = 1
    /\ HeadTreeOf(s)[p] # NoFile

\* A lookup by full path through the subtrees.
InHeadTreeByPath(s, p) == HeadShaOf(s) # 0 /\ HeadTreeOf(s)[p] # NoFile

\* _git_checkout with file_path = p: _checkout_file
GitCheckoutFile(p) ==
    /\ Idle /\ Calls("checkoutfile") /\ inited
    /\ IF InHeadTree(Cur, p)
       THEN /\ wt' = [wt EXCEPT ![p] = HeadTree[p]]
            /\ last' = Result("checkoutfile", TRUE, HeadSha, FALSE)
       ELSE /\ last' = Result("checkoutfile", FALSE, 0, FALSE)
            /\ UNCHANGED wt
    /\ scen' = ScenOff
    /\ UNCHANGED <<inited, work, index, commits, branches, head, conc, snap, fault, vpath>>

\* The branches _git_branch lists: name, ref and is_current of every ref
\* under refs/heads/.
BranchList(s) ==
    {[name |-> b, sha |-> s.branches[b], is_current |-> (s.head.branch = b)] :
        b \in {n \in BranchNames : s.branches[n] # 0}}

\* _git_branch with action = "list"
GitBranchList ==
    /\ Idle /\ Calls("branchlist") /\ inited
    /\ last' = Result("branchlist", TRUE, 0, FALSE)
    /\ scen' = ScenOff
    /\ UNCHANGED <<inited, work, wt, index, commits, branches, head, conc, snap, fault, vpath>>

\* A top-level file with several contents and a nested one, under staging,
\* checkpoints, every read-only call and the single-file checkout.
ReadLoad ==
    [files |-> FilesOf(MaxContent, MaxNestedContent, 0),
     ops |-> {"init", "write", "delete", "add", "checkpoint", "status", "log",
              "diff", "list", "branchlist", "checkoutfile"},
     names |-> {DefaultBranch}, commits |-> MaxDiffCommits]

InitRead == InitWith(ReadLoad)

NextRead ==
    \/ GitInit
    \/ \E p \in Paths : \E c \in 1..MaxContent : WriteFile(p, c)
    \/ \E p \in Paths : DeleteFile(p)
    \/ \E p \in Paths : GitAddFile(p)
    \/ GitCheckpoint(<<"cp1">>, NoIdx)
    \/ GitStatus
    \/ \E n \in {1, DefaultMaxCount} : GitLog(n)
    \/ \E st \in BOOLEAN : GitDiff(st)
    \/ \E l \in Limits : GitListCheckpoints(l)
    \/ GitBranchList
    \/ \E p \in DiffPaths : GitCheckoutFile(p)

SpecRead == InitRead /\ [][NextRead]_vars

\* C33: a single-file checkout of p writes HEAD's blob to p for every p in
\* HEAD's tree, top level or nested, and leaves HEAD, the refs, the index
\* and every other file alone; for p absent from HEAD's tree it fails and
\* changes nothing.
C33_CheckoutFile ==
    [][\A p \in DiffPaths :
          (last'.op = "checkoutfile" /\ GitCheckoutFile(p)) =>
              /\ UNCHANGED <<head, branches, index, commits>>
              /\ IF InHeadTreeByPath(Cur, p)
                 THEN last'.ok /\ wt' = [wt EXCEPT ![p] = HeadTree[p]]
                 ELSE ~last'.ok /\ wt' = wt]_vars

\* C34: a rename of a tracked file moves the file on disk from src to dst
\* and leaves the index with an entry for dst carrying src's blob id, no
\* entry for src and every other entry as it was; a rename whose src has no
\* index entry, or whose move fails, fails and changes neither the index
\* nor the working tree.
C34_Rename ==
    [][\A a \in DiffPaths : \A b \in DiffPaths :
          (last'.op = "mv" /\ GitMv(a, b)) =>
              IF index[a] = NoFile \/ wt[a] = NoFile
              THEN ~last'.ok /\ UNCHANGED <<index, wt>>
              ELSE /\ last'.ok
                   /\ wt'[b] = wt[a]
                   /\ index'[b] = index[a]
                   /\ a # b => (wt'[a] = NoFile /\ index'[a] = NoFile)
                   /\ \A q \in Paths \ {a, b} : index'[q] = index[q] /\ wt'[q] = wt[q]]_vars

\* C35: a restore that returns failure leaves HEAD and every branch ref
\* pointing where they pointed before the call.
C35_FailedRestoreKeepsRefs ==
    [][(RestoreStep /\ ~last'.ok) => (head' = head /\ branches' = branches)]_vars

\* C36: once the first commit exists, HEAD resolves to an existing commit:
\* a symbolic HEAD names a branch whose ref is a commit of the store, a
\* detached HEAD is a commit of the store.
C36_HeadResolves ==
    Len(commits) > 0 =>
        IF head.branch # ""
        THEN branches[head.branch] \in 1..Len(commits)
        ELSE head.sha \in 1..Len(commits)

\* The branch master has been deleted while HEAD was on feature, with
\* every commit of the run made.
C36_Witness ==
    /\ Len(commits) = MaxCommits
    /\ last.op = "branchdelete" /\ last.ok
    /\ head.branch = "feature" /\ branches[DefaultBranch] = 0

\* The calls that only report.
ReadOnlyStep ==
    \/ GitStatus
    \/ \E st \in BOOLEAN : GitDiff(st)
    \/ \E n \in {1, DefaultMaxCount} : GitLog(n)
    \/ GitBranchList
    \/ \E l \in Limits : GitListCheckpoints(l)

\* C37: status, diff (staged and unstaged), log, branch list and
\* list_checkpoints leave HEAD, every branch ref, the index entries, the
\* commits and every working-tree file as they were.
C37_ReadOnlyCalls ==
    [][(last'.op \in {"status", "diffstaged", "diffunstaged", "log", "branchlist", "list"}
            /\ ReadOnlyStep)
          => UNCHANGED <<head, branches, index, wt, commits>>]_vars

\* A status has been asked with a staged file modified on disk and a
\* commit in the store.
C37_Witness ==
    /\ last.op = "status"
    /\ Len(commits) > 0
    /\ index[PX] # NoFile /\ wt[PX] # NoFile /\ wt[PX] # index[PX]

\* C38: after a checkpoint returns commit c, a path is in c's tree exactly
\* when a file exists at it on disk outside the control directory at the
\* time of the call; a tracked file deleted from disk is therefore absent
\* from c's tree, and its deletion alone makes the checkpoint a new commit.
C38_CheckpointSnapshotsDisk ==
    [][\A m \in CheckpointMsgs : \A i \in {NoIdx, BoundIdx} :
          (CheckpointStep(m, i) /\ last'.ok) =>
              /\ \A p \in Paths :
                    commits'[last'.sha].tree[p] # NoFile
                        <=> (wt[p] # NoFile /\ ~InControlDir(p))
              /\ (\E p \in Paths : HeadTree[p] # NoFile /\ wt[p] = NoFile)
                    => (last'.chg /\ last'.sha = Len(commits) + 1)]_vars

\* C39: the id a successful checkpoint returned, for a commit it created or
\* for HEAD's commit it reused, is the full_sha of an entry of a
\* list_checkpoints called right after it with a limit above the number of
\* commits.
C39_ReturnedIdIsListed ==
    [][(/\ last.op = "checkpoint" /\ last.ok
        /\ last'.op = "list" /\ GitListCheckpoints(DefaultLimit))
          => \E k \in 1..Len(ListCheckpoints(Cur, DefaultLimit)) :
                FullHex(CommitObj(ListCheckpoints(Cur, DefaultLimit)[k]))
                    = FullHex(CommitObj(last.sha))]_vars

\* The files on disk outside the control directory, .github among them.
OutsideControlDir(w) == {p \in Paths : w[p] # NoFile /\ ~InControlDir(p)}

\* C40: only the control directory is exempt: a file in any other
\* directory, one named .github included, is staged by add("."), is
\* reported by the unstaged diff while it has no index entry, and is
\* deleted by a checkout and by a restore with clean=true whose target tree
\* lacks it.
C40_OnlyControlDirExempt ==
    [][/\ (last'.op = "add" /\ GitAddAll) =>
              \A p \in OutsideControlDir(wt) : index'[p] # NoFile
       /\ HeadSha' # 0 =>
              \A p \in OutsideControlDir(wt') :
                  index'[p] = NoFile => Record("add", p) \in DiffUnstaged(Cur)'
       /\ (last'.op \in {"checkout", "restore"} /\ last'.ok
               /\ (GitCheckout(DefaultBranch, FALSE)
                      \/ \E id \in RestoreInputs : GitRestore(id, TRUE))) =>
              \A p \in OutsideControlDir(wt) :
                  commits'[last'.sha].tree[p] = NoFile => wt'[p] = NoFile]_vars
====
